---- MODULE Spec2Model ----
(***************************************************************************)
(* Model of the YSS Video Creator backend (backend/src): the FastAPI       *)
(* endpoints of main.py and the four engine wrappers they drive            *)
(* (OllamaClient, AudioPipeline, WhisperService, VideoEngine).             *)
(*                                                                         *)
(* External engines (ffmpeg, ffprobe, the Ollama HTTP backend, the Whisper *)
(* model) are the environment: each invocation's outcome is drawn from a   *)
(* small set.  Handlers whose code has no suspension point (subprocess.run *)
(* is blocking) are one action; the script handlers suspend at their two   *)
(* HTTP calls and are split there.                                         *)
(***************************************************************************)
EXTENDS Integers, Sequences, FiniteSets, TLC

\* ------------------------------------------------------------------ bounds

\* abs(hash(text)) % 10000 takes values in 0..HashBuckets-1 in the model
HashBuckets == 2
\* number of script requests that can be in flight at the same time
MaxTasks == 2
\* length of the longest backend response text
MaxTextLen == 3
\* the wall clock (seconds) runs over 0..MaxClock
MaxClock == 1

\* ------------------------------------------------------- program constants

\* AppState.vram_available, in GB
VramAvailableInit == 12
\* AppState.current_vram_usage
VramUsageInit == 0
\* generate_audio unloads the language model above this usage
VramHighWater == 8
\* check_gpu_availability: minimum VRAM for is_gpu_available
MinGpuVram == 12
\* the only HTTP status the client treats as success
HttpOk == 200

\* ------------------------------------------------------------------- paths

\* A path is <<name, number>>; the number is the hash bucket or timestamp of
\* generated names and 0 for the others.
NoPath == <<"None", 0>>
RefClip == <<"voices/ref.wav", 0>>
MissingPath == <<"missing", 0>>
AudioIn == <<"audio.wav", 0>>
MusicIn == <<"music.mp3", 0>>
CaptionsIn == <<"captions.srt", 0>>
ClipA == <<"clip_a.mp4", 0>>
ClipB == <<"clip_b.mp4", 0>>
ClipC == <<"clip_c.mp4", 0>>
DuckOut == <<"mix.m4a", 0>>
OutputMp4 == <<"output.mp4", 0>>

\* files present before the first request
InitialFiles == {RefClip, AudioIn, MusicIn, CaptionsIn, ClipA, ClipC}

\* A request text: what it says and the number of words len(text.split())
\* counts in it.
Text(body, words) == [body |-> body, words |-> words]

Texts == {Text("hello world", 2), Text("daily habits", 2), Text("habits daily", 2)}

\* abs(hash(text)) of this process: any function of the text; every other
\* text collides with the first in every bucket count
TextHash(text) ==
  CASE text.body = "hello world" -> 0
    [] text.body = "daily habits" -> 1
    [] OTHER -> HashBuckets

\* abs(hash(request.text)) % 10000
HashOf(text) == TextHash(text) % HashBuckets

\* os.path.join(audio_dir, f"voiceover_{abs(hash(text)) % 10000}.wav")
VoiceoverPath(h) == <<"assets/audio/voiceover.wav", h>>

\* audio_path.replace(".wav", "_normalized.wav"); the only paths that reach it
\* are those of VoiceoverPath
NormalizedPath(p) ==
  IF p[1] = "assets/audio/voiceover.wav"
    THEN <<"assets/audio/voiceover_normalized.wav", p[2]>>
    ELSE p

\* the paths the program writes
OutputPaths ==
  {VoiceoverPath(h) : h \in 0..(HashBuckets - 1)}
    \cup {NormalizedPath(VoiceoverPath(h)) : h \in 0..(HashBuckets - 1)}
    \cup {DuckOut, OutputMp4}

\* ------------------------------------------------------ external processes

\* What one run of an external engine can do: exit 0, exit non-zero, throw
\* (the binary is missing, the connection is refused), or never answer.
Outcomes == {"ok", "fail", "throw", "hang"}

\* subprocess.run(cmd, ..., timeout=T) raises TimeoutExpired when the process
\* does not answer; without a timeout it blocks.
Run(timeout, outcome) ==
  IF outcome = "hang" /\ timeout THEN "throw" ELSE outcome

\* An engine whose input file is missing cannot succeed.
Effective(outcome, inputs_ok) ==
  IF outcome = "ok" /\ ~inputs_ok THEN "fail" ELSE outcome

\* One recorded engine invocation.
Call(engine, op, timeout, on_failure, inputs_ok, outcome) ==
  [engine |-> engine, op |-> op, timeout |-> timeout,
   on_failure |-> on_failure, inputs_ok |-> inputs_ok,
   outcome |-> Run(timeout, Effective(outcome, inputs_ok))]

\* Result of a method: it returns a path, raises, or never returns.
Ret(status, path, calls, wrote) ==
  [status |-> status, path |-> path, calls |-> calls, wrote |-> wrote]

Range(seq) == {seq[i] : i \in DOMAIN seq}

\* ----------------------------------------------------------- AudioPipeline

\* VoiceSettings.speed is held in tenths: 10 is the default 1.0
DefaultSpeed == 10
Speeds == {5, DefaultSpeed, 20}

\* VoiceSettings as the requests carry them
VoiceSettings ==
  [voice_type : {"preset", "custom"},
   reference_audio_path : {NoPath, RefClip, MissingPath},
   speed : Speeds]

\* the placeholder's sample rate and the speaking pace of its duration
SampleRate == 22050
WordsPerDurationUnit == 150

\* The silent placeholder both voice generators write:
\*   duration = max(1, len(text.split()) / 150 * settings.speed)
\*   audio_data = np.zeros(int(sample_rate * duration))
\* in exact arithmetic, as the number of samples written at SampleRate.
placeholder_samples(text, settings) ==
  IF text.words * settings.speed <= WordsPerDurationUnit * 10
    THEN SampleRate
    ELSE (SampleRate * text.words * settings.speed) \div (WordsPerDurationUnit * 10)

\* _generate_preset_voice: writes a silent placeholder and returns its path
generate_preset_voice(text, output_path, settings) ==
  Ret("return", output_path, <<>>, <<output_path>>)
    @@ [samples |-> placeholder_samples(text, settings)]

\* _generate_custom_voice: raises ValueError without a reference clip on disk
generate_custom_voice(text, output_path, settings, fs) ==
  IF settings.reference_audio_path = NoPath
       \/ settings.reference_audio_path \notin fs
    THEN Ret("raise", NoPath, <<>>, <<>>)
    ELSE Ret("return", output_path, <<>>, <<output_path>>)
           @@ [samples |-> placeholder_samples(text, settings)]

\* _normalize_loudness, the branch taken when the first command exits
\* non-zero: one fallback command, whose exit status is not looked at
normalize_fallback_retrying(audio_path, output_path, inputs_ok, o2) ==
  LET c == Call("ffmpeg", "fallback_volume", FALSE, TRUE, inputs_ok, o2) IN
  IF c.outcome = "hang" THEN Ret("hang", NoPath, <<c>>, <<>>)
  ELSE IF c.outcome = "throw" THEN Ret("return", audio_path, <<c>>, <<>>)
  ELSE IF c.outcome = "ok" THEN Ret("return", output_path, <<c>>, <<output_path>>)
  ELSE Ret("return", output_path, <<c, c, c>>, <<>>)

normalize_fallback(audio_path, output_path, inputs_ok, o2) ==
  LET c == Call("ffmpeg", "fallback_volume", FALSE, TRUE, inputs_ok, o2) IN
  IF c.outcome = "hang" THEN Ret("hang", NoPath, <<c>>, <<>>)
  ELSE IF c.outcome = "throw" THEN Ret("return", audio_path, <<c>>, <<>>)
  ELSE Ret("return", output_path, <<c>>,
           IF c.outcome = "ok" THEN <<output_path>> ELSE <<>>)

\* What the loudnorm pass prints on stderr: no measurement (no "input_i"), or
\* a measurement, held as the gain that brings the audio to the target
\* loudness.  UnityGain is the gain of the filter "volume=1.0".
NotMeasured == "none"
UnityGain == "1.0"
Measurements == {NotMeasured, UnityGain, "2.0"}

\* _normalize_loudness(audio_path, target_lufs).  o1 is the outcome of the
\* loudnorm command, measured what its stderr holds, o2 the outcome of the
\* command that follows (the second pass or the fallback).  The second pass
\* runs with the filter "volume=1.0".
normalize_loudness(audio_path, o1, measured, o2, fs) ==
  LET output_path == NormalizedPath(audio_path)
      inputs_ok == audio_path \in fs
      c1 == Call("ffmpeg", "loudnorm", FALSE, FALSE, inputs_ok, o1)
              @@ [measured |-> measured]
      c2 == Call("ffmpeg", "apply_gain", FALSE, FALSE, inputs_ok, o2)
              @@ [gain |-> UnityGain]
  IN
  IF c1.outcome = "hang" THEN Ret("hang", NoPath, <<c1>>, <<>>)
  ELSE IF c1.outcome = "throw" THEN Ret("return", audio_path, <<c1>>, <<>>)
  ELSE IF c1.outcome = "ok" THEN
    IF measured # NotMeasured THEN
      IF c2.outcome = "hang" THEN Ret("hang", NoPath, <<c1, c2>>, <<output_path>>)
      ELSE Ret("return", output_path, <<c1, c2>>,
               IF c2.outcome = "ok" THEN <<output_path, output_path>>
                                    ELSE <<output_path>>)
    ELSE Ret("return", output_path, <<c1>>, <<output_path>>)
  ELSE
    LET f == normalize_fallback(audio_path, output_path, inputs_ok, o2) IN
    Ret(f.status, f.path, <<c1>> \o f.calls, f.wrote)

\* generate_voiceover(request): the placeholder voice, then normalisation;
\* every exception is re-raised.  The result holds the samples of the
\* placeholder, which the normalisation neither adds to nor drops.
generate_voiceover(text, settings, h, o1, measured, o2, fs) ==
  LET output_path == VoiceoverPath(h)
      v == IF settings.voice_type = "preset"
             THEN generate_preset_voice(text, output_path, settings)
             ELSE generate_custom_voice(text, output_path, settings, fs)
  IN
  IF v.status = "raise" THEN v
  ELSE
    LET n == normalize_loudness(v.path, o1, measured, o2, fs \cup Range(v.wrote)) IN
    Ret(n.status, n.path, v.calls \o n.calls, v.wrote \o n.wrote)
      @@ [samples |-> v.samples]

\* _get_audio_duration(audio_path): ffprobe without a timeout; a non-zero exit
\* leaves stdout empty, float("") raises, and every exception yields 60.0.
\* ProbedDuration is what ffprobe prints for the files of the model.
ProbedDuration == 10
DefaultDuration == 60
get_audio_duration(audio_path, o, fs) ==
  LET c == Call("ffprobe", "duration", FALSE, FALSE, audio_path \in fs, o) IN
  [call |-> c,
   value |-> IF c.outcome = "ok" THEN ProbedDuration ELSE DefaultDuration]

\* apply_auto_ducking(voice_path, music_path, output_path): two probes, the
\* sidechain command, and on a non-zero exit the amix fallback, whose exit
\* status is not looked at.  An exception of either command is re-raised.
apply_auto_ducking(voice_path, music_path, output_path, p1, p2, o1, o2, fs) ==
  LET d1 == get_audio_duration(voice_path, p1, fs)
      d2 == get_audio_duration(music_path, p2, fs)
      inputs_ok == voice_path \in fs /\ music_path \in fs
      c1 == Call("ffmpeg", "sidechaincompress", FALSE, FALSE, inputs_ok, o1)
      c2 == Call("ffmpeg", "amix", FALSE, TRUE, inputs_ok, o2)
  IN
  IF d1.call.outcome = "hang" THEN Ret("hang", NoPath, <<d1.call>>, <<>>)
  ELSE IF d2.call.outcome = "hang"
    THEN Ret("hang", NoPath, <<d1.call, d2.call>>, <<>>)
  ELSE IF c1.outcome = "hang"
    THEN Ret("hang", NoPath, <<d1.call, d2.call, c1>>, <<>>)
  ELSE IF c1.outcome = "throw"
    THEN Ret("raise", NoPath, <<d1.call, d2.call, c1>>, <<>>)
  ELSE IF c1.outcome = "ok"
    THEN Ret("return", output_path, <<d1.call, d2.call, c1>>, <<output_path>>)
  ELSE IF c2.outcome = "hang"
    THEN Ret("hang", NoPath, <<d1.call, d2.call, c1, c2>>, <<>>)
  ELSE IF c2.outcome = "throw"
    THEN Ret("raise", NoPath, <<d1.call, d2.call, c1, c2>>, <<>>)
  ELSE Ret("return", output_path, <<d1.call, d2.call, c1, c2>>,
           IF c2.outcome = "ok" THEN <<output_path>> ELSE <<>>)

\* ------------------------------------------------------------ OllamaClient

\* generate_script sizes a script for its target duration:
\*   target_words = request.target_duration_seconds * 150 / 60
\* (a script has whole words: the value is rounded down)
WordsPerMinute == 150
SecondsPerMinute == 60
target_words(target_duration_seconds) ==
  (target_duration_seconds * WordsPerMinute) \div SecondsPerMinute

\* OllamaClient.__init__
OllamaClientInit == [is_model_loaded |-> FALSE, model_name |-> "llama3.2:latest"]

\* unload_model flipping the flag instead of clearing it
unload_model_toggling(client) == [client EXCEPT !.is_model_loaded = ~@]

\* unload_model: clears the flag, whatever it was
unload_model(client) == [client EXCEPT !.is_model_loaded = FALSE]

\* unload_model's return value: True, the assignment cannot raise
unload_model_returns(client) == TRUE

\* The backend's answer to one POST /api/generate: an HTTP status and the
\* "response" text of its JSON body, or an exception (connection refused, a
\* body that is not JSON, or the total timeout aiohttp.ClientSession() applies
\* by default, which is the deadline of these calls).
HttpStatuses == {HttpOk, 201, 500}

\* A response text is a sequence of tokens: the two braces and "x" for any
\* other text.
Tokens == {"{", "}", "x"}
ResponseTexts == UNION {[1..n -> Tokens] : n \in 0..MaxTextLen}

\* the POST threw: there is no status and no text
ThrownReply == [kind |-> "throw", status |-> 0, text |-> <<>>]

Replies ==
  {[kind |-> "http", status |-> HttpOk, text |-> x] : x \in ResponseTexts}
    \cup {[kind |-> "http", status |-> st, text |-> <<>>] :
            st \in HttpStatuses \ {HttpOk}}
    \cup {ThrownReply}

\* the replies that differ in what load_model reads of them
LoadReplies == {r \in Replies : r.text = <<>>}

\* how a reply reads as the outcome of an engine invocation
ReplyOutcome(reply) ==
  IF reply.kind = "throw" THEN "throw"
  ELSE IF reply.status = HttpOk THEN "ok" ELSE "fail"

\* str.find(ch) and str.rfind(ch): 0-based index, -1 when absent
Find(text, ch) ==
  IF \E i \in DOMAIN text : text[i] = ch
    THEN (CHOOSE i \in DOMAIN text :
            text[i] = ch /\ \A j \in 1..(i - 1) : text[j] # ch) - 1
    ELSE -1
RFind(text, ch) ==
  IF \E i \in DOMAIN text : text[i] = ch
    THEN (CHOOSE i \in DOMAIN text :
            text[i] = ch /\ \A j \in (i + 1)..Len(text) : text[j] # ch) - 1
    ELSE -1

\* text[a:b] for 0 <= a < b <= len(text)
Slice(text, a, b) == SubSeq(text, a + 1, b)

\* json.loads succeeds on the empty object alone: text between the braces
\* is never a well-formed member
JsonLoads(str) == str = <<"{", "}">>

\* The parsing block shared by generate_script and refine_script: the text
\* from the first "{" to the last "}" is parsed; a JSONDecodeError returns
\* the wrapper; when there is no such text the block falls through to the
\* method's final "return None".
ParseScript(response_text, wrapper) ==
  LET json_start == Find(response_text, "{")
      json_end == RFind(response_text, "}") + 1
  IN
  IF json_start # -1 /\ json_end > json_start
    THEN IF JsonLoads(Slice(response_text, json_start, json_end))
           THEN "parsed" ELSE wrapper
    ELSE "None"

\* generate_script after its POST is answered: status 200 is parsed, any
\* other status raises, an exception is re-raised
generate_script_result(reply) ==
  IF reply.kind = "throw" THEN [status |-> "raise", script |-> "None"]
  ELSE IF reply.status = HttpOk
    THEN [status |-> "return",
          script |-> ParseScript(reply.text, "wrapped response_text")]
  ELSE [status |-> "raise", script |-> "None"]

\* refine_script after its POST is answered: status 200 is parsed (the
\* wrapper holds request.script), any other status falls through to
\* "return None", an exception is re-raised
refine_script_result(reply) ==
  IF reply.kind = "throw" THEN [status |-> "raise", script |-> "None"]
  ELSE IF reply.status = HttpOk
    THEN [status |-> "return",
          script |-> ParseScript(reply.text, "wrapped request.script")]
  ELSE [status |-> "return", script |-> "None"]

\* load_model after its POST is answered: the flag is set on status 200 and
\* cleared on any other status or exception
load_model(client, reply) ==
  [client EXCEPT !.is_model_loaded =
     (reply.kind = "http" /\ reply.status = HttpOk)]

\* ---------------------------------------------------------- WhisperService

ModelSizes == {"small", "base"}

NoModel == [size |-> "none", device |-> "none", compute_type |-> "none"]

\* What the GPU probe of _load_model finds: torch reports no GPU (or is not
\* installed), the GPU has less than 6 GB, it has enough, or reading its
\* properties throws.
GpuProbes == {"nogpu", "low", "enough", "error"}

\* _check_gpu
check_gpu(probe) == probe # "nogpu"

\* WhisperService.__init__
WhisperServiceInit(probe) ==
  [device |-> IF check_gpu(probe) THEN "cuda" ELSE "cpu",
   compute_type |-> "float16", model |-> NoModel, model_name |-> "small"]

\* _load_model with the low-VRAM branch keeping the GPU
load_whisper_model_keeps_gpu(w, model_size, use_gpu, probe, built) ==
  LET picked ==
        IF use_gpu /\ check_gpu(probe)
          THEN IF probe = "error" THEN [w EXCEPT !.device = "cpu"]
               ELSE [w EXCEPT !.device = "cuda", !.compute_type = "float16"]
          ELSE [w EXCEPT !.device = "cpu", !.compute_type = "int8"]
  IN
  IF built
    THEN [status |-> "return",
          w |-> [picked EXCEPT
                   !.model = [size |-> model_size, device |-> picked.device,
                              compute_type |-> picked.compute_type],
                   !.model_name = model_size]]
    ELSE [status |-> "raise", w |-> picked]

\* _load_model(model_size, use_gpu): picks device and compute type, builds the
\* model and records its size; when WhisperModel(...) throws the fields set
\* so far stay and the exception is re-raised
load_whisper_model(w, model_size, use_gpu, probe, built) ==
  LET picked ==
        IF use_gpu /\ check_gpu(probe)
          THEN IF probe = "error" THEN [w EXCEPT !.device = "cpu"]
               ELSE IF probe = "low" THEN [w EXCEPT !.device = "cpu"]
               ELSE [w EXCEPT !.device = "cuda", !.compute_type = "float16"]
          ELSE [w EXCEPT !.device = "cpu", !.compute_type = "int8"]
  IN
  IF built
    THEN [status |-> "return",
          w |-> [picked EXCEPT
                   !.model = [size |-> model_size, device |-> picked.device,
                              compute_type |-> picked.compute_type],
                   !.model_name = model_size]]
    ELSE [status |-> "raise", w |-> picked]

\* The accelerator probe of _load_model, made when use_gpu is set:
\* torch.cuda.is_available() and get_device_properties(0); the recorded
\* outcome is what the probe found
probe_gpu(probe) ==
  [engine |-> "torch", op |-> "cuda_probe", timeout |-> FALSE,
   on_failure |-> FALSE, inputs_ok |-> TRUE, outcome |-> probe]

\* transcribe(audio_path, model_size, language, use_gpu): loads a model when
\* none is loaded or the size differs, then runs the transcription, with no
\* look at the audio file and no deadline.  The recorded transcription holds
\* the use_gpu it was asked with and the model it ran on.
transcribe(w, audio_path, model_size, use_gpu, probe, built, o, fs) ==
  LET need == w.model = NoModel \/ w.model_name # model_size
      l == IF need THEN load_whisper_model(w, model_size, use_gpu, probe, built)
           ELSE [status |-> "return", w |-> w]
      p == IF need /\ use_gpu THEN <<probe_gpu(probe)>> ELSE <<>>
      c == Call("whisper", "transcribe", FALSE, FALSE, audio_path \in fs, o)
             @@ [use_gpu |-> use_gpu, model |-> l.w.model]
  IN
  IF l.status = "raise" THEN [w |-> l.w, r |-> Ret("raise", NoPath, p, <<>>)]
  ELSE IF c.outcome = "hang"
    THEN [w |-> l.w, r |-> Ret("hang", NoPath, Append(p, c), <<>>)]
  ELSE IF c.outcome = "ok"
    THEN [w |-> l.w, r |-> Ret("return", audio_path, Append(p, c), <<>>)]
  ELSE [w |-> l.w, r |-> Ret("raise", NoPath, Append(p, c), <<>>)]

\* -------------------------------------------------------------- VideoEngine

\* os.path.join(output_dir, "short_<timestamp>.mp4"), to the second
ShortPath(now) == <<"output/short.mp4", now>>

\* the clip list taken whole, with no look at the files
ExistingClips_unchecked(video_clips, fs) == video_clips

\* the clips of a list whose files exist, in list order
ExistingClips(video_clips, fs) == SelectSeq(video_clips, LAMBDA c : c \in fs)

\* _check_nvenc: "h264_nvenc" in the codec list; False when the probe throws.
\* The recorded call holds whether the machine's ffmpeg has the encoder.
check_nvenc(o, has_nvenc) ==
  LET c == Call("ffmpeg", "codecs", FALSE, FALSE, TRUE, o) IN
  [call |-> c @@ [present |-> has_nvenc],
   value |-> (c.outcome \in {"ok", "fail"} /\ has_nvenc)]

\* _build_ffmpeg_command choosing the hardware encoder without the probe
build_ffmpeg_command_always_nvenc(resolution, fps, video_clips, audio_path, captions_path, nvenc, fs) ==
  LET video_files == ExistingClips(video_clips, fs)
      subtitled == captions_path # NoPath /\ captions_path \in fs
  IN
  [inputs |-> video_files \o <<audio_path>>,
   concat |-> video_files,
   labels |-> (IF subtitled THEN {"outv", "outsub"} ELSE {"outv"}),
   map_video |-> (IF captions_path = NoPath THEN "outv" ELSE "outsub"),
   map_audio |-> Len(video_files),
   vcodec |-> "h264_nvenc",
   resolution |-> resolution, fps |-> fps,
   output |-> OutputMp4]

\* _build_ffmpeg_command: the inputs, the labels its filter graph defines,
\* the two -map arguments, the encoder and the output file
build_ffmpeg_command(resolution, fps, video_clips, audio_path, captions_path, nvenc, fs) ==
  LET video_files == ExistingClips(video_clips, fs)
      subtitled == captions_path # NoPath /\ captions_path \in fs
  IN
  [inputs |-> video_files \o <<audio_path>>,
   concat |-> video_files,
   labels |-> (IF subtitled THEN {"outv", "outsub"} ELSE {"outv"}),
   map_video |-> (IF captions_path = NoPath THEN "outv" ELSE "outsub"),
   map_audio |-> Len(video_files),
   vcodec |-> (IF nvenc THEN "h264_nvenc" ELSE "h264"),
   resolution |-> resolution, fps |-> fps,
   output |-> OutputMp4]

\* VideoEngine.export_video: reads settings.codec (an AttributeError for
\* settings without that field), names the output by the clock, builds the
\* command and runs it without a deadline; exit 0 returns the named path.
\* The recorded encoder run holds the command and the arguments of the call.
VideoEngine_export_video(settings, video_clips, audio_path, captions_path, now, po, has_nvenc, o, fs) ==
  LET n == check_nvenc(po, has_nvenc)
      cmd == build_ffmpeg_command(settings.resolution, settings.fps, video_clips,
                                  audio_path, captions_path, n.value, fs)
      inputs_ok == audio_path \in fs
                     /\ (captions_path # NoPath => captions_path \in fs)
      c == Call("ffmpeg", "render", FALSE, FALSE, inputs_ok, o)
             @@ [cmd |-> cmd,
                 request |-> [video_clips |-> video_clips, audio_path |-> audio_path,
                              captions_path |-> captions_path]]
  IN
  IF ~settings.has_codec THEN Ret("raise", NoPath, <<>>, <<>>)
  ELSE IF n.call.outcome = "hang" THEN Ret("hang", NoPath, <<n.call>>, <<>>)
  ELSE IF c.outcome = "hang" THEN Ret("hang", NoPath, <<n.call, c>>, <<>>)
  ELSE IF c.outcome = "ok"
    THEN Ret("return", ShortPath(now), <<n.call, c>>, <<cmd.output>>)
  ELSE Ret("raise", NoPath, <<n.call, c>>, <<>>)

\* ------------------------------------------------------------------ state

VARIABLES
  started,     \* startup_event has run
  app,         \* AppState
  ollama,      \* the OllamaClient's fields
  files,       \* the paths that exist on disk
  resp,        \* the response of the latest request that ended
  calls,       \* the engine invocations of the latest handler, in order
  overwritten, \* the artifacts the latest handler wrote over
  hung,        \* a handler is blocked in an engine call that never answers
  tasks,       \* the script requests in flight: where each is suspended
  whisper,     \* the WhisperService's fields
  clock        \* the wall clock, in seconds

vars == <<started, app, ollama, files, resp, calls, overwritten, hung, tasks,
          whisper, clock>>

Tasks == 1..MaxTasks

\* a script handler is idle, awaits load_model's POST, or awaits its own POST
\* and holds the model_name its request carried (a refinement request has
\* no such field)
NoModelName == "none"
IdleTask == [pc |-> "idle", kind |-> "none", calls |-> <<>>, model_name |-> NoModelName]

\* AppState.__init__ with the usage counted in MiB, the unit nvidia-smi
\* reports, against a capacity in GB
AppStateInit_usage_in_mib ==
  [ollama_client |-> FALSE, audio_pipeline |-> FALSE, video_engine |-> FALSE,
   whisper_service |-> FALSE, is_gpu_available |-> FALSE,
   vram_available |-> VramAvailableInit, current_vram_usage |-> 4096]

\* AppState.__init__
AppStateInit ==
  [ollama_client |-> FALSE, audio_pipeline |-> FALSE, video_engine |-> FALSE,
   whisper_service |-> FALSE, is_gpu_available |-> FALSE,
   vram_available |-> VramAvailableInit, current_vram_usage |-> VramUsageInit]

\* the voice settings and backend status of a request that has neither
NoVoice ==
  [voice_type |-> "none", reference_audio_path |-> NoPath, speed |-> DefaultSpeed]
NoStatus == ThrownReply.status

\* A response: the endpoint, the keys of the returned object and its values,
\* and, to read it against its request, the voice settings the request
\* carried and the HTTP status the backend answered it with.
Resp(endpoint, success, keys, path, script, voice, status) ==
  [endpoint |-> endpoint, success |-> success, keys |-> keys,
   path |-> path, script |-> script, voice |-> voice, status |-> status]

NoResp == Resp("none", FALSE, {}, NoPath, "None", NoVoice, NoStatus)

Init ==
  /\ started = FALSE
  /\ app = AppStateInit
  /\ ollama = OllamaClientInit
  /\ files = InitialFiles
  /\ resp = NoResp
  /\ calls = <<>>
  /\ overwritten = {}
  /\ hung = FALSE
  /\ tasks = [t \in Tasks |-> IdleTask]
  /\ whisper = WhisperServiceInit("nogpu")
  /\ clock = 0

\* the files stages have written
Artifacts == files \ InitialFiles

\* the writes of a handler that replace an artifact: the path was written by
\* an earlier request, or earlier by the same handler
Overwrites(wrote, fs) ==
  {wrote[i] : i \in {j \in DOMAIN wrote :
      wrote[j] \in (fs \ InitialFiles)
        \/ \E k \in 1..(j - 1) : wrote[k] = wrote[j]}}

\* The effect of a handler whose method result is r: its writes reach the
\* disk, and it answers ok or err unless it never returns.
Commit(r, ok, err) ==
  /\ files' = files \cup Range(r.wrote)
  /\ overwritten' = Overwrites(r.wrote, files)
  /\ calls' = r.calls
  /\ hung' = (r.status = "hang")
  /\ resp' = IF r.status = "hang" THEN NoResp
            ELSE IF r.status = "return" THEN ok ELSE err

\* ------------------------------------------------------------------ main.py

\* check_gpu_availability: nvidia-smi with timeout=5; True only for exit 0 and
\* at least 12 of VRAM.  The recorded call holds the memory.total it printed.
ProbeVram == {8, 12}
check_gpu_availability(o, vram) ==
  LET c == Call("nvidia-smi", "probe", TRUE, FALSE, TRUE, o) IN
  [call |-> c @@ [vram |-> vram],
   value |-> (c.outcome = "ok" /\ vram >= MinGpuVram)]

\* startup_event: stores the probe's verdict; check_ffmpeg and check_ollama
\* (both with timeout=5) only log
startup_event(o, vram) ==
  /\ ~started
  /\ started' = TRUE
  /\ LET g == check_gpu_availability(o, vram) IN
       /\ app' = [app EXCEPT !.is_gpu_available = g.value]
       /\ calls' = <<g.call,
                     Call("ffmpeg", "version", TRUE, FALSE, TRUE, "ok"),
                     Call("ollama", "tags", TRUE, FALSE, TRUE, "ok")>>
  /\ UNCHANGED <<ollama, files, resp, overwritten, hung, tasks, whisper, clock>>

\* POST /audio/generate.  A successful response is held with the word count
\* of its text and the samples of the audio written for it.
generate_audio(text, settings, o1, measured, o2) ==
  /\ started /\ ~hung
  /\ LET unload == app.current_vram_usage > VramHighWater /\ app.ollama_client
         r == generate_voiceover(text, settings, HashOf(text), o1, measured, o2, files)
     IN
       /\ ollama' = IF unload THEN unload_model(ollama) ELSE ollama
       /\ app' = [app EXCEPT !.audio_pipeline = TRUE]
       /\ Commit(r,
            Resp("audio/generate", TRUE,
                 {"success", "audio_path", "duration_seconds"}, r.path, "None",
                 settings, NoStatus)
              @@ [words |-> text.words, samples |-> r.samples],
            Resp("audio/generate", FALSE,
                 {"success", "error", "recommendation"}, NoPath, "None",
                 settings, NoStatus))
  /\ UNCHANGED <<started, tasks, whisper, clock>>

\* POST /audio/ducking
apply_audio_ducking(voice_path, music_path, output_path, p1, p2, o1, o2) ==
  /\ started /\ ~hung
  /\ LET r == apply_auto_ducking(voice_path, music_path, output_path,
                                 p1, p2, o1, o2, files)
     IN
       /\ app' = [app EXCEPT !.audio_pipeline = TRUE]
       /\ Commit(r,
            Resp("audio/ducking", TRUE, {"success", "output_path"}, r.path, "None",
                 NoVoice, NoStatus),
            Resp("audio/ducking", FALSE, {"success", "error"}, NoPath, "None",
                 NoVoice, NoStatus))
  /\ UNCHANGED <<started, ollama, tasks, whisper, clock>>

\* POST /script/generate and POST /script/refine, up to the first await: the
\* client is created when absent, and the handler suspends in load_model's
\* POST when the model is not loaded, in its own POST otherwise
script_begin(t, kind, model_name) ==
  /\ started /\ ~hung
  /\ tasks[t].pc = "idle"
  /\ \A u \in 1..(t - 1) : tasks[u].pc # "idle"
  /\ app' = [app EXCEPT !.ollama_client = TRUE]
  /\ tasks' = [tasks EXCEPT ![t] =
       [pc |-> IF ollama.is_model_loaded THEN "gen" ELSE "load",
        kind |-> kind, calls |-> <<>>, model_name |-> model_name]]
  /\ UNCHANGED <<started, ollama, files, resp, calls, overwritten, hung, whisper, clock>>

\* load_model's POST is answered; its verdict is not looked at and the
\* handler goes on to send its own POST
load_model_respond(t, reply) ==
  /\ ~hung
  /\ tasks[t].pc = "load"
  /\ ollama' = load_model(ollama, reply)
  /\ tasks' = [tasks EXCEPT ![t].pc = "gen",
                            ![t].calls = Append(@,
                               Call("ollama", "load", TRUE, FALSE, TRUE,
                                    ReplyOutcome(reply)))]
  /\ UNCHANGED <<started, app, files, resp, calls, overwritten, hung, whisper, clock>>

\* the handler's own POST is answered and the endpoint responds; the
\* recorded POST holds the "model" it was sent with (self.model_name) and the
\* model_name of the request
script_respond(t, reply) ==
  /\ ~hung
  /\ tasks[t].pc = "gen"
  /\ LET r == IF tasks[t].kind = "generate"
                THEN generate_script_result(reply)
                ELSE refine_script_result(reply)
         endpoint == IF tasks[t].kind = "generate"
                       THEN "script/generate" ELSE "script/refine"
     IN
       /\ resp' =
            IF r.status = "return"
              THEN Resp(endpoint, TRUE,
                        IF tasks[t].kind = "generate"
                          THEN {"success", "script", "token_count",
                                "duration_estimate_seconds"}
                          ELSE {"success", "script", "token_count"},
                        NoPath, r.script, NoVoice, reply.status)
              ELSE Resp(endpoint, FALSE,
                        IF tasks[t].kind = "generate"
                          THEN {"success", "error", "recommendation"}
                          ELSE {"success", "error"},
                        NoPath, "None", NoVoice, reply.status)
       /\ calls' = Append(tasks[t].calls,
                          Call("ollama", tasks[t].kind, TRUE, FALSE, TRUE,
                               ReplyOutcome(reply))
                            @@ [model |-> ollama.model_name,
                                request_model |-> tasks[t].model_name])
  /\ overwritten' = {}
  /\ tasks' = [tasks EXCEPT ![t] = IdleTask]
  /\ UNCHANGED <<started, app, ollama, files, hung, whisper, clock>>

\* POST /captions/generate: the service is created when absent (its
\* constructor probes the GPU), then transcribe
generate_captions(audio_path, model_size, use_gpu, probe0, probe, built, o) ==
  /\ started /\ ~hung
  /\ LET w0 == IF app.whisper_service THEN whisper ELSE WhisperServiceInit(probe0)
         t == transcribe(w0, audio_path, model_size, use_gpu, probe, built, o, files)
     IN
       /\ whisper' = t.w
       /\ app' = [app EXCEPT !.whisper_service = TRUE]
       /\ Commit(t.r,
            Resp("captions/generate", TRUE,
                 {"success", "captions", "srt_content", "duration_seconds"},
                 NoPath, "None", NoVoice, NoStatus),
            Resp("captions/generate", FALSE,
                 {"success", "error", "recommendation"}, NoPath, "None",
                 NoVoice, NoStatus))
  /\ UNCHANGED <<started, ollama, tasks, clock>>

\* ProjectSettings of main.py: platform, resolution, fps, bit_rate; no codec
ProjectSettings ==
  [platform |-> "youtube-shorts", resolution |-> "1080x1920", fps |-> 30,
   bit_rate |-> "8M", has_codec |-> FALSE]

\* the settings of test_video_engine: the same with a codec field
EngineSettings == [ProjectSettings EXCEPT !.has_codec = TRUE]

\* POST /video/export: the engine is created when absent; the size of the
\* returned path is read (os.path.getsize raises when no such file exists)
export_video(settings, video_clips, audio_path, captions_path, po, has_nvenc, o) ==
  /\ started /\ ~hung
  /\ LET r == VideoEngine_export_video(settings, video_clips, audio_path,
                                        captions_path, clock, po, has_nvenc, o, files)
         sized == r.status = "return" /\ r.path \in (files \cup Range(r.wrote))
     IN
       /\ app' = [app EXCEPT !.video_engine = TRUE]
       /\ Commit(IF r.status = "return" /\ ~sized
                   THEN Ret("raise", NoPath, r.calls, r.wrote) ELSE r,
            Resp("video/export", TRUE,
                 {"success", "video_path", "file_size_bytes"}, r.path, "None",
                 NoVoice, NoStatus),
            Resp("video/export", FALSE,
                 {"success", "error", "recommendation"}, NoPath, "None",
                 NoVoice, NoStatus))
  /\ UNCHANGED <<started, ollama, tasks, whisper, clock>>

\* VideoEngine().export_video(settings, clips, audio) called on its own, as
\* test_video_engine does
engine_export_video(settings, video_clips, audio_path, captions_path, po, has_nvenc, o) ==
  /\ ~hung
  /\ LET r == VideoEngine_export_video(settings, video_clips, audio_path,
                                        captions_path, clock, po, has_nvenc, o, files)
     IN
       Commit(r,
         Resp("VideoEngine.export_video", TRUE, {}, r.path, "None",
              NoVoice, NoStatus),
         Resp("VideoEngine.export_video", FALSE, {}, NoPath, "None",
              NoVoice, NoStatus))
  /\ UNCHANGED <<started, app, ollama, tasks, whisper, clock>>

\* ollama_client.unload_model() called on the client the script endpoints
\* created, between any two steps of the handlers.  The response is held
\* with the flag the call found.
release_model ==
  /\ started /\ ~hung
  /\ app.ollama_client
  /\ ollama' = unload_model(ollama)
  /\ resp' = Resp("OllamaClient.unload_model", unload_model_returns(ollama), {},
                  NoPath, "None", NoVoice, NoStatus)
               @@ [was_loaded |-> ollama.is_model_loaded]
  /\ calls' = <<>>
  /\ overwritten' = {}
  /\ UNCHANGED <<started, app, files, hung, tasks, whisper, clock>>

\* the directories download_file searches, in order
SearchPaths == <<"output/", "assets/audio/", "assets/video/", "models/", "projects/">>

\* os.path.join(path, filename); a file name is <<name, number>> as a path is
JoinPath(path, filename) == <<path \o filename[1], filename[2]>>

\* the status codes of download_file: the FileResponse, the HTTPException
\* raised for a file found nowhere, and the one its except-branch raises
StatusOk == 200
StatusNotFound == 404
StatusServerError == 500

\* The try block of download_file: the first search path that holds the file
\* is answered with a FileResponse; when none does, HTTPException(404) is
\* raised inside the block.
download_search(filename, fs) ==
  IF \E k \in DOMAIN SearchPaths : JoinPath(SearchPaths[k], filename) \in fs
    THEN [status |-> "return", status_code |-> StatusOk,
          path |-> JoinPath(SearchPaths[
                     CHOOSE k \in DOMAIN SearchPaths :
                       /\ JoinPath(SearchPaths[k], filename) \in fs
                       /\ \A j \in 1..(k - 1) :
                            JoinPath(SearchPaths[j], filename) \notin fs],
                     filename)]
    ELSE [status |-> "raise", status_code |-> StatusNotFound, path |-> NoPath]

\* GET /download/{filename}: "except Exception" catches what the try block
\* raises, the HTTPException too, and raises HTTPException(500) in its place.
\* The response is held with the file name asked for.
download_file(filename) ==
  /\ started /\ ~hung
  /\ LET r == download_search(filename, files)
         status_code == IF r.status = "raise" THEN StatusServerError
                        ELSE r.status_code
     IN
       resp' = Resp("download", r.status = "return", {}, r.path, "None",
                    NoVoice, NoStatus)
                 @@ [status_code |-> status_code, filename |-> filename]
  /\ calls' = <<>>
  /\ overwritten' = {}
  /\ UNCHANGED <<started, app, ollama, files, hung, tasks, whisper, clock>>

\* a second passes
tick ==
  /\ clock < MaxClock
  /\ clock' = clock + 1
  /\ UNCHANGED <<started, app, ollama, files, resp, calls, overwritten, hung,
                 tasks, whisper>>

\* ------------------------------------------------------------- environment

\* the voice settings that differ in what the code reads of them
VoiceInputs ==
  {s \in VoiceSettings :
     /\ s.speed = DefaultSpeed
     /\ s.voice_type = "preset" => s.reference_audio_path = NoPath}

\* the runs of ffmpeg under _normalize_loudness: the second outcome is drawn
\* only when a second command is run
NormalizeRuns ==
  {r \in [o1 : Outcomes, measured : Measurements, o2 : Outcomes] :
     /\ r.measured # NotMeasured => r.o1 = "ok"
     /\ ~(r.measured # NotMeasured \/ r.o1 = "fail") => r.o2 = "ok"}

\* the runs of ffprobe and ffmpeg under apply_auto_ducking
ProbeOutcomes == {"ok", "fail", "hang"}
DuckingRuns ==
  {r \in [p1 : ProbeOutcomes, p2 : ProbeOutcomes, o1 : Outcomes, o2 : Outcomes] :
     /\ r.p1 = "hang" => r.p2 = "ok"
     /\ (r.p1 = "hang" \/ r.p2 = "hang") => r.o1 = "ok"
     /\ r.o1 \in {"throw", "hang"} => r.o2 = "ok"}

Startup == \E o \in Outcomes, v \in ProbeVram : startup_event(o, v)

\* startup on a machine whose probe answers
StartupProbed == startup_event("ok", MinGpuVram)

AudioGenerate ==
  \E text \in Texts, s \in VoiceInputs, r \in NormalizeRuns :
    generate_audio(text, s, r.o1, r.measured, r.o2)

AudioDucking ==
  \E v \in {AudioIn, MissingPath}, r \in DuckingRuns :
    apply_audio_ducking(v, MusicIn, DuckOut, r.p1, r.p2, r.o1, r.o2)

\* the file names asked of the download endpoint: the voiceovers the audio
\* endpoint writes, and a name no stage writes
DownloadNames ==
  {<<"voiceover.wav", h>> : h \in 0..(HashBuckets - 1)}
    \cup {<<"voiceover_normalized.wav", h>> : h \in 0..(HashBuckets - 1)}
    \cup {<<"nothing.bin", 0>>}

Download == \E f \in DownloadNames : download_file(f)

\* the voiceover endpoint and the download of what it wrote
NextDownload == StartupProbed \/ AudioGenerate \/ Download

SpecDownload == Init /\ [][NextDownload]_vars

\* the audio endpoints
NextAudio == StartupProbed \/ AudioGenerate \/ AudioDucking

SpecAudio == Init /\ [][NextAudio]_vars

\* the target durations of script requests, 45 being the default, and a
\* script of the size generate_script asks the backend for
TargetDurations == {15, 30, 45, 60}
ScriptFor(target_duration_seconds) ==
  Text("script", target_words(target_duration_seconds))

VoiceForScript ==
  \E d \in TargetDurations, s \in VoiceSettings, r \in NormalizeRuns :
    /\ s.voice_type = "preset" /\ s.reference_audio_path = NoPath
    /\ generate_audio(ScriptFor(d), s, r.o1, r.measured, r.o2)

\* the voice stage fed with generated scripts
NextVoice == StartupProbed \/ VoiceForScript

SpecVoice == Init /\ [][NextVoice]_vars

\* ScriptGenerationRequest.model_name: its default, and the name the client
\* is constructed with
RequestModelDefault == "llama3.1:8b-q4_K_M"
ModelNames == {RequestModelDefault, OllamaClientInit.model_name}

ScriptBegin ==
  \E t \in Tasks :
    \/ \E m \in ModelNames : script_begin(t, "generate", m)
    \/ script_begin(t, "refine", NoModelName)

LoadModelRespond == \E t \in Tasks, reply \in LoadReplies : load_model_respond(t, reply)

ScriptRespond == \E t \in Tasks, reply \in Replies : script_respond(t, reply)

\* the script endpoints
NextScript == StartupProbed \/ ScriptBegin \/ LoadModelRespond \/ ScriptRespond

SpecScript == Init /\ [][NextScript]_vars

\* the caption requests and what the engine does with each
CaptionRuns ==
  {r \in [probe0 : GpuProbes, probe : GpuProbes, built : BOOLEAN,
          o : {"ok", "throw", "hang"}] :
     /\ r.probe0 \in {"nogpu", "enough"}
     /\ ~r.built => r.o = "ok"}

CaptionsGenerate ==
  \E a \in {AudioIn, MissingPath}, m \in ModelSizes, g \in BOOLEAN, r \in CaptionRuns :
    generate_captions(a, m, g, r.probe0, r.probe, r.built, r.o)

\* the caption endpoint
NextCaptions == StartupProbed \/ CaptionsGenerate

SpecCaptions == Init /\ [][NextCaptions]_vars

ClipLists == {<<>>, <<ClipA>>, <<ClipC, ClipB, ClipA>>}

\* the runs of ffmpeg under export_video: the codec probe, then the encoder
RenderRuns ==
  {r \in [po : Outcomes, has_nvenc : BOOLEAN, o : Outcomes] :
     /\ r.po = "hang" => ~r.has_nvenc
     /\ r.po = "hang" => r.o = "ok"}

VideoExport ==
  \E clips \in ClipLists, a \in {AudioIn, MissingPath},
     c \in {NoPath, CaptionsIn, MissingPath}, r \in RenderRuns :
    export_video(ProjectSettings, clips, a, c, r.po, r.has_nvenc, r.o)

EngineExport ==
  \E clips \in ClipLists, a \in {AudioIn, MissingPath},
     c \in {NoPath, CaptionsIn, MissingPath}, r \in RenderRuns :
    engine_export_video(EngineSettings, clips, a, c, r.po, r.has_nvenc, r.o)

\* the export endpoint and the engine called on its own
NextVideo == StartupProbed \/ VideoExport \/ EngineExport \/ tick

SpecVideo == Init /\ [][NextVideo]_vars

\* the script endpoint, one request in flight at a time, and the release of
\* the language model
NextRelease ==
  \/ StartupProbed
  \/ script_begin(1, "generate", RequestModelDefault)
  \/ \E reply \in LoadReplies : load_model_respond(1, reply)
  \/ \E reply \in Replies : script_respond(1, reply)
  \/ release_model

SpecRelease == Init /\ [][NextRelease]_vars

\* the script endpoints and the release of the language model
NextLoad == NextScript \/ release_model

SpecLoad == Init /\ [][NextLoad]_vars

\* ------------------------------------------------------- the whole backend

\* All endpoints together, one script request in flight at a time, with
\* engines that answer: each external run exits zero or non-zero, the backend
\* answers 200 with an object, 200 with plain text, or 500.
AnsweringReplies ==
  {r \in Replies :
     r.kind = "http" /\ r.status # 201 /\ r.text \in {<<>>, <<"{", "}">>, <<"x">>}}

AllScriptBegin == script_begin(1, "generate", RequestModelDefault)

AllLoadModelRespond ==
  \E reply \in AnsweringReplies \cap LoadReplies : load_model_respond(1, reply)

AllScriptRespond == \E reply \in AnsweringReplies : script_respond(1, reply)

AllAudioGenerate ==
  \E s \in VoiceInputs, o \in {"ok", "fail"} :
    generate_audio(Text("hello world", 2), s, o, NotMeasured, o)

AllCaptionsGenerate ==
  \E m \in ModelSizes, g \in BOOLEAN, probe \in GpuProbes, o \in {"ok", "throw"} :
    generate_captions(AudioIn, m, g, IF probe = "nogpu" THEN "nogpu" ELSE "enough",
                      probe, TRUE, o)

AllAudioDucking ==
  \E o1, o2 \in {"ok", "fail"} :
    apply_audio_ducking(AudioIn, MusicIn, DuckOut, "ok", "ok", o1,
                        IF o1 = "fail" THEN o2 ELSE "ok")

AllVideoExport ==
  \E o \in {"ok", "fail"} :
    export_video(ProjectSettings, <<ClipA>>, AudioIn, NoPath, "ok", FALSE, o)

Next ==
  \/ Startup
  \/ AllScriptBegin
  \/ AllLoadModelRespond
  \/ AllScriptRespond
  \/ AllAudioGenerate
  \/ AllAudioDucking
  \/ AllCaptionsGenerate
  \/ AllVideoExport

Spec == Init /\ [][Next]_vars

\* ------------------------------------------------------------------ claims

\* the retry bound the design configures (default 2)
RetryBound == 2

ScriptEndpoints == {"script/generate", "script/refine"}
EncoderEndpoints == {"audio/generate", "audio/ducking", "video/export"}

\* the runs of the encoder by the latest handler (not its probes)
EncoderCalls ==
  {i \in DOMAIN calls :
     calls[i].engine = "ffmpeg" /\ calls[i].op \notin {"codecs", "version"}}

\* the invocations a handler made only because an earlier one had failed
Retries(cs) == Cardinality({i \in DOMAIN cs : cs[i].on_failure})

\* the fallback commands of the latest handler that failed
FailedFallbacks ==
  {i \in DOMAIN calls :
     calls[i].on_failure /\ calls[i].outcome \in {"fail", "throw"}}

\* C1: a hard failure is never reported as a success: a successful response
\* of a script endpoint carries a script, and a successful response of an
\* encoder endpoint had at least one encoder run exit with status zero.
C1_NoFailureAsSuccess ==
  resp.success =>
    /\ resp.endpoint \in ScriptEndpoints => resp.script # "None"
    /\ resp.endpoint \in EncoderEndpoints =>
         (EncoderCalls = {} \/ \E i \in EncoderCalls : calls[i].outcome = "ok")

\* C2: at most one heavyweight model holds the accelerator at a time: the
\* language model is not loaded while a speech-to-text model sits on the GPU.
C2_ExclusiveAccelerator ==
  ~(/\ ollama.is_model_loaded
    /\ app.whisper_service
    /\ whisper.model # NoModel
    /\ whisper.model.device = "cuda")

\* C3: the available accelerator memory, total capacity minus memory in use,
\* is never negative and never exceeds the total capacity.
C3_AvailableWithinCapacity ==
  LET available == app.vram_available - app.current_vram_usage IN
  available >= 0 /\ available <= app.vram_available

\* C3 witness: the language model and a speech-to-text model have been loaded
\* by requests, and the available memory is the whole capacity.
C3_Witness ==
  /\ ollama.is_model_loaded
  /\ whisper.model # NoModel
  /\ app.vram_available - app.current_vram_usage = VramAvailableInit

\* C4: an artifact that has been written is never overwritten: no handler
\* writes a path that a stage has already written.
C4_NeverOverwritten == overwritten = {}

C6_CustomVoiceFallsBack ==
  (/\ resp.endpoint = "audio/generate"
   /\ resp.voice.voice_type = "custom"
   /\ (resp.voice.reference_audio_path = NoPath
         \/ resp.voice.reference_audio_path \notin files))
    => (resp.success /\ "fallback_used" \in resp.keys)

\* C7: when the fallback command of _normalize_loudness or apply_auto_ducking
\* has failed, the audio endpoint does not answer with a success.
C7_FallbackFailureReported ==
  (resp.endpoint \in {"audio/generate", "audio/ducking"} /\ FailedFallbacks # {})
    => ~resp.success

\* C8: the encoder and the transcription are invoked only when their input
\* files exist.
C8_InputsValidated ==
  \A i \in DOMAIN calls :
    calls[i].op \in {"render", "transcribe"} => calls[i].inputs_ok

\* C9: every engine invocation carries a deadline and no handler is blocked
\* by an engine that never answers.
C9_EveryCallHasDeadline ==
  /\ \A i \in DOMAIN calls : calls[i].timeout
  /\ ~hung

\* C10: whenever the backend answered a script request with a 2xx status,
\* the endpoint returns a script, parsed or wrapped, and never a null one.
C10_ScriptFor2xx ==
  (resp.endpoint \in ScriptEndpoints /\ resp.status \in 200..299)
    => (resp.success /\ resp.script # "None")

\* the script responses whose backend call was answered with a non-2xx status
NonSuccessStatus ==
  /\ resp.endpoint \in ScriptEndpoints
  /\ resp.status # NoStatus
  /\ resp.status \notin 200..299

\* C11: a script request, generation or refinement, whose backend call was
\* answered with a non-2xx status is not reported as a success.
C11_Non2xxIsFailure == NonSuccessStatus => ~resp.success

\* the latest handler loaded a speech-to-text model after an accelerator
\* probe that failed: no GPU, too little memory, or a probe that threw
ProbeFailed ==
  \E i \in DOMAIN calls :
    calls[i].op = "cuda_probe" /\ calls[i].outcome \in {"nogpu", "low", "error"}

\* the latest handler went on to transcribe: WhisperModel(...) did not throw
Transcribing == \E i \in DOMAIN calls : calls[i].op = "transcribe"

RenderCalls == {i \in DOMAIN calls : calls[i].op = "render"}

\* the encoder probe that preceded call i reported the hardware encoder:
\* it did not throw and the codec list holds h264_nvenc
ProbeReportsNvenc(i) ==
  \E j \in 1..(i - 1) :
    /\ calls[j].op = "codecs"
    /\ calls[j].outcome # "throw"
    /\ calls[j].present

\* C13: the render command encodes with h264_nvenc exactly when the encoder
\* probe reported it present, and with the software encoder otherwise, also
\* when the probe threw.
C13_NvencIffProbed ==
  \A i \in RenderCalls :
    /\ calls[i].cmd.vcodec = (IF ProbeReportsNvenc(i) THEN "h264_nvenc" ELSE "h264")

\* C13 witness: the probe threw on a machine that has the hardware encoder
\* and the render command ran with the software encoder.
C13_Witness ==
  \E i \in RenderCalls :
    /\ calls[i].cmd.vcodec = "h264"
    /\ \E j \in 1..(i - 1) :
         calls[j].op = "codecs" /\ calls[j].outcome = "throw" /\ calls[j].present

\* no engine run of the latest handler failed, threw or hung
EnginesSucceeded ==
  /\ ~hung
  /\ \A i \in DOMAIN calls : calls[i].outcome \notin {"fail", "throw", "hang"}

\* C14: an export request made through the API with the default project
\* settings, no engine run of which failed, is answered with a success and
\* its encoder ran a command for 1080x1920 at 30 fps.
C14_DefaultExportCompletes ==
  (resp.endpoint = "video/export" /\ EnginesSucceeded) =>
    /\ resp.success
    /\ \E i \in RenderCalls :
         /\ calls[i].cmd.resolution = ProjectSettings.resolution
         /\ calls[i].cmd.fps = ProjectSettings.fps

\* the latest response is a voiceover, spoken at speed 1.0, whose audio
\* exists, for a script sized for d seconds
VoiceoverFor(d) ==
  /\ resp.endpoint = "audio/generate"
  /\ resp.success
  /\ resp.path \in files
  /\ resp.voice.speed = DefaultSpeed
  /\ resp.words = target_words(d)

\* C15: the audio written for a script sized for d seconds and spoken at
\* speed 1.0 lasts d seconds to within 10%: its samples, at the sample rate,
\* differ from d * SampleRate by at most a tenth of it.
C15_DurationWithinTenth ==
  \A d \in TargetDurations :
    VoiceoverFor(d) =>
      /\ 10 * (resp.samples - d * SampleRate) <= d * SampleRate
      /\ 10 * (d * SampleRate - resp.samples) <= d * SampleRate

\* C16: once startup_event has run with a hardware probe that answered, the
\* total accelerator memory of AppState is the memory the probe reported.
C16_TotalFromProbe ==
  \A i \in DOMAIN calls :
    (started /\ calls[i].op = "probe" /\ calls[i].outcome = "ok")
      => app.vram_available = calls[i].vram

\* the second passes of _normalize_loudness in the latest handler: the
\* commands that write the normalized file after a measurement
GainCalls == {i \in DOMAIN calls : calls[i].op = "apply_gain"}

\* C17: the pass that writes the normalized file after the measuring pass
\* reported a measurement runs with the gain that was measured.
C17_MeasuredGainApplied ==
  \A i \in GainCalls :
    \E j \in 1..(i - 1) :
      /\ calls[j].op = "loudnorm"
      /\ calls[j].measured # NotMeasured
      /\ calls[i].gain = calls[j].measured

\* a step that is a call of unload_model: it answers as unload_model and no
\* script handler moves
UnloadStep == resp'.endpoint = "OllamaClient.unload_model" /\ tasks' = tasks

\* C18: releasing the language model is idempotent: an unload reports no
\* error, leaves the client as a second unload would leave it, and changes
\* nothing of a client whose model is already unloaded.
C18_ReleaseIdempotent ==
  [][UnloadStep =>
       /\ resp'.success
       /\ unload_model(ollama') = ollama'
       /\ (~ollama.is_model_loaded => ollama' = ollama)]_vars

\* C18 witness: an unload found the model of an existing client already
\* unloaded, reported no error and left it unloaded.
C18_Witness ==
  /\ resp.endpoint = "OllamaClient.unload_model"
  /\ resp.success
  /\ ~resp.was_loaded
  /\ ~ollama.is_model_loaded
  /\ app.ollama_client

\* the endpoints of the four stages
StageEndpoints ==
  {"script/generate", "script/refine", "audio/generate", "audio/ducking",
   "captions/generate", "video/export"}

\* C19: every failure response of a stage endpoint carries the error and a
\* remediation hint.
C19_FailureCarriesHint ==
  (resp.endpoint \in StageEndpoints /\ ~resp.success)
    => {"error", "recommendation"} \subseteq resp.keys

\* C20: a path that VideoEngine.export_video returns is the output file of
\* the encoder command it ran.
C20_ReturnedPathIsEncoderOutput ==
  (resp.endpoint = "VideoEngine.export_video" /\ resp.success)
    => \E i \in RenderCalls : calls[i].cmd.output = resp.path

\* C21: the video stream label that an encoder command maps is a label its
\* filter graph defines, whatever the clips and the caption path.
C21_MappedLabelDefined ==
  \A i \in RenderCalls : calls[i].cmd.map_video \in calls[i].cmd.labels

\* the positions of a clip list whose files exist
Kept(video_clips) == {k \in DOMAIN video_clips : video_clips[k] \in files}

\* the n-th of those positions, counted from 1
NthKept(video_clips, n) ==
  CHOOSE k \in Kept(video_clips) :
    Cardinality({j \in Kept(video_clips) : j <= k}) = n

\* a sequence of paths is the existing clips of a list, in list order
IsExistingInOrder(paths, video_clips) ==
  /\ Len(paths) = Cardinality(Kept(video_clips))
  /\ \A n \in DOMAIN paths : paths[n] = video_clips[NthKept(video_clips, n)]

FoundNowhere ==
  \A k \in DOMAIN SearchPaths : JoinPath(SearchPaths[k], resp.filename) \notin files

\* C23: a download request for a file name found in none of the searched
\* directories is answered with status 404, and status 500 answers only
\* other errors.
C23_MissingFileIs404 ==
  resp.endpoint = "download" =>
    /\ FoundNowhere => resp.status_code = StatusNotFound
    /\ resp.status_code = StatusServerError => ~FoundNowhere

\* the transcriptions of the latest handler
TranscribeCalls == {i \in DOMAIN calls : calls[i].op = "transcribe"}

\* C24: a transcription asked with use_gpu = false runs on a model loaded on
\* the CPU, whatever the calls before it loaded.
C24_NoGpuRunsOnCpu ==
  \A i \in TranscribeCalls : ~calls[i].use_gpu => calls[i].model.device = "cpu"

\* C25: a model that _load_model has built has a device and a compute type
\* that go together: "cpu" with "int8" and "cuda" with "float16".
C25_DeviceMatchesComputeType ==
  whisper.model # NoModel =>
    /\ whisper.model.device = "cpu" => whisper.model.compute_type = "int8"
    /\ whisper.model.device = "cuda" => whisper.model.compute_type = "float16"

\* C26: the generation request of a script generation is sent to the
\* backend with the model that the request's model_name names.
C26_RequestedModelUsed ==
  \A i \in DOMAIN calls :
    calls[i].op = "generate" => calls[i].model = calls[i].request_model

\* a step in which load_model's POST of handler t is answered, and whether
\* it was answered with status 200
LoadStep(t) == tasks[t].pc = "load" /\ tasks'[t].pc # "load"
LoadSucceeded(t) == tasks'[t].calls[Len(tasks'[t].calls)].outcome = "ok"

\* a step in which handler t sends its generation request
SendStep(t) == tasks[t].pc # "gen" /\ tasks'[t].pc = "gen"

\* a step in which handler t ends, after a load_model of its own that failed
EndsAfterFailedLoad(t) ==
  /\ tasks[t].pc = "gen" /\ tasks'[t].pc = "idle"
  /\ \E i \in DOMAIN calls' : calls'[i].op = "load" /\ calls'[i].outcome # "ok"

\* C27: a script handler sends its generation request only with the model
\* loaded: after a load_model that failed no generation request follows and
\* the operation fails; and is_model_loaded is set by a load that succeeded,
\* cleared by a load that failed and by an unload, and changed by no other
\* step.
C27_GenerateOnlyWhenLoaded ==
  [][/\ \A t \in Tasks :
          /\ LoadStep(t) => (ollama'.is_model_loaded <=> LoadSucceeded(t))
          /\ SendStep(t) => ollama'.is_model_loaded
          /\ EndsAfterFailedLoad(t) => ~resp'.success
     /\ UnloadStep => ~ollama'.is_model_loaded
     /\ (~UnloadStep /\ \A t \in Tasks : ~LoadStep(t))
          => ollama'.is_model_loaded = ollama.is_model_loaded]_vars

====
